---- MODULE Spec2Model ----
(***************************************************************************)
(* Model of the AI-RM banking chatbot backend (chatbot/views.py,           *)
(* chatbot/gemini_service.py, chatbot/data_service.py, chatbot/models.py). *)
(* The record store is the state; every HTTP handler is one action.        *)
(***************************************************************************)
EXTENDS Integers, Sequences, FiniteSets, TLC

\* ---------------------------------------------------------------- bounds
MaxConversations == 2
MaxMessages == 4
MaxRows == 2
MaxUploads == 2

\* ------------------------------------------------------- value domains
\* a CharField the request does not carry
Missing == ""
\* pandas' missing cell value (an empty CSV cell read by pd.read_csv)
NaN == -1

\* customer_id values a request can name; only MockCustomers are ever stored
CustomerIds == {"C1", "C2", "C9"}
MockCustomers == {"C1", "C2"}
RecordIds == {1, 2}
Amounts == {1}
\* the pool uuid4 draws conversation keys from
ConversationKeys == {"k1", "k2", "k3"}
\* conversation_id = null (serializers.py: required=False, allow_null=True)
None == "None"
UserTexts == {<<"hi">>}

\* datetime.now().date(), as a day number
Today == 1000
\* timedelta(days=180)
WindowDays == 180
\* [:50]
MaxContextTransactions == 50
\* conversation_history[-8:]
HistoryWindow == 8

VARIABLES
    customers,        \* Customer table: set of customer_id
    transactions,     \* Transaction table: transaction_id -> record
    investments,      \* Investment table: investment_id -> record
    conversations,    \* ChatConversation table: conversation_id -> record
    messages,         \* ChatMessage table, in insertion (id) order
    uploaded_files,   \* UploadedFile table, in insertion (id) order
    clock,            \* server time, read by auto_now / auto_now_add
    last              \* the last HTTP exchange (request facts and response)

vars == <<customers, transactions, investments, conversations, messages,
          uploaded_files, clock, last>>

\* ------------------------------------------------ text (token sequences)
Whitespace == {" ", "\n"}

Lower(w) ==
    CASE w = "SUMMARY" -> "summary"
      [] w = "Recommendation" -> "recommendation"
      [] w = "Spending" -> "spending"
      [] OTHER -> w

RECURSIVE LStrip(_)
LStrip(s) ==
    IF s = <<>> THEN s
    ELSE IF Head(s) \in Whitespace THEN LStrip(Tail(s)) ELSE s

RECURSIVE RStrip(_)
RStrip(s) ==
    IF s = <<>> THEN s
    ELSE IF s[Len(s)] \in Whitespace THEN RStrip(SubSeq(s, 1, Len(s) - 1)) ELSE s

\* str.strip()
Strip(s) == RStrip(LStrip(s))

\* str.lower()
LowerText(s) == [i \in 1..Len(s) |-> Lower(s[i])]

\* ------------------------------------------------------------ bulk import
FileTypes == {"transaction", "investment", "customer"}

\* which of the declared type's columns the CSV has
ColumnSets == {"full", "optional_missing", "required_missing"}

Rows == [id : RecordIds, amount : Amounts \cup {NaN}]

RowLists == UNION {[1..n -> Rows] : n \in 0..MaxRows}

\* one list of each length
PlainRowLists ==
    {[i \in 1..n |-> [id |-> 2, amount |-> 1]] : n \in 0..MaxRows}

Files == [readable : {TRUE}, columns : {"full"}, rows : RowLists]
           \cup [readable : {TRUE},
                 columns : {"optional_missing", "required_missing"},
                 rows : PlainRowLists]
           \cup {[readable |-> FALSE, columns |-> "full", rows |-> <<>>]}

EmptyFile == [readable |-> TRUE, columns |-> "full", rows |-> <<>>]

\* a file whose first row can be stored and whose second cannot
HalfStorableFile ==
    [readable |-> TRUE, columns |-> "full",
     rows |-> <<[id |-> 2, amount |-> 1], [id |-> 3, amount |-> NaN]>>]

\* the upload requests: (has_file, file_type, customer_id, file)
UploadRequests ==
    ({TRUE} \X {"transaction", "investment"} \X MockCustomers \X Files)
        \cup ({TRUE} \X {"customer"} \X MockCustomers
                  \X [readable : {TRUE}, columns : {"full"},
                      rows : PlainRowLists])
        \cup ({TRUE} \X {"transaction"} \X {"C2"} \X {HalfStorableFile})
        \cup ({FALSE} \X {"transaction"} \X MockCustomers \X {EmptyFile})
        \cup ({TRUE} \X {Missing} \X MockCustomers \X {EmptyFile})
        \cup ({TRUE} \X {"transaction"} \X (CustomerIds \cup {Missing})
                  \X {EmptyFile})

\* Customer.objects.get(customer_id=customer_id) finds the customer
CustomerExistsLax(known, customer_id) == TRUE

CustomerExists(known, customer_id) == customer_id \in known

\* variant: required columns read with row.get, so none is ever missing
HasRequiredLax(file) == TRUE

\* row['x'] for a required column: KeyError when the column is absent
HasRequired(file) == file.columns # "required_missing"

\* row.get('x', default) for an optional column
RowGet(file, value, default) ==
    IF file.columns = "full" THEN value ELSE default

\* the defaults dict of views.py:283-291
TransactionDefaults(file, row, customer) ==
    [customer |-> customer,
     date |-> Today - 10,
     category |-> <<"groceries">>,
     merchant |-> "store",
     amount |-> row.amount,
     payment_method |-> RowGet(file, "credit_card", "upi"),
     description |-> RowGet(file, "weekly shop", "")]

\* the defaults dict of views.py:299-312
InvestmentDefaults(file, row, customer) ==
    [customer |-> customer,
     product_type |-> <<"mutual", "_", "fund">>,
     product_name |-> "fund",
     purchase_date |-> Today - 10,
     invested_amount |-> row.amount,
     current_value |-> row.amount,
     units |-> RowGet(file, 10, 0),
     purchase_nav |-> RowGet(file, 10, 0),
     current_nav |-> RowGet(file, 10, 0),
     returns_absolute |-> 0,
     returns_percentage |-> 0,
     risk_level |-> "low"]

\* a DecimalField rejects NaN when the record is saved
Storable(row) == row.amount # NaN

\* variant: update_or_create, an existing record is overwritten
update_or_create(table, key, defaults, storable) ==
    IF storable
    THEN [table |-> [k \in DOMAIN table \cup {key} |->
                        IF k = key THEN defaults ELSE table[k]],
          raised |-> FALSE, created |-> key \notin DOMAIN table]
    ELSE [table |-> table, raised |-> TRUE, created |-> FALSE]

\* variant: plain create, a duplicate key is an IntegrityError
create_only(table, key, defaults, storable) ==
    IF key \notin DOMAIN table /\ storable
    THEN [table |-> [k \in DOMAIN table \cup {key} |->
                        IF k = key THEN defaults ELSE table[k]],
          raised |-> FALSE, created |-> TRUE]
    ELSE [table |-> table, raised |-> TRUE, created |-> FALSE]

\* QuerySet.get_or_create(pk=key, defaults=...): an existing record is
\* returned untouched; otherwise the record is created (which raises when a
\* value cannot be stored)
get_or_create(table, key, defaults, storable) ==
    IF key \in DOMAIN table
    THEN [table |-> table, raised |-> FALSE, created |-> FALSE]
    ELSE IF storable
         THEN [table |-> [k \in DOMAIN table \cup {key} |->
                             IF k = key THEN defaults ELSE table[k]],
               raised |-> FALSE, created |-> TRUE]
         ELSE [table |-> table, raised |-> TRUE, created |-> FALSE]

\* variant: only the rows that created a record are counted
CountCreated(records_imported, created) ==
    records_imported + (IF created THEN 1 ELSE 0)

\* records_imported += 1 after each row
CountRow(records_imported, created) == records_imported + 1

\* the for-loop of views.py:280-293 / 296-314 from row i on
RECURSIVE ImportLoop(_, _, _, _, _, _, _)
ImportLoop(table, sort, file, customer, i, records_imported, created) ==
    IF i > Len(file.rows)
    THEN [table |-> table, raised |-> FALSE,
          records_imported |-> records_imported, created |-> created]
    ELSE IF ~HasRequired(file)
    THEN [table |-> table, raised |-> TRUE,
          records_imported |-> records_imported, created |-> created]
    ELSE LET row == file.rows[i]
             defaults == IF sort = "transaction"
                         THEN TransactionDefaults(file, row, customer)
                         ELSE InvestmentDefaults(file, row, customer)
             r == get_or_create(table, row.id, defaults, Storable(row))
         IN IF r.raised
            THEN [table |-> r.table, raised |-> TRUE,
                  records_imported |-> records_imported, created |-> created]
            ELSE ImportLoop(r.table, sort, file, customer, i + 1,
                            CountRow(records_imported, r.created),
                            created + (IF r.created THEN 1 ELSE 0))

\* process_uploaded_file(uploaded_file, customer) on store (txns, invs)
process_uploaded_file(txns, invs, file_type, file, customer) ==
    IF ~file.readable
    THEN [transactions |-> txns, investments |-> invs, raised |-> TRUE,
          records_imported |-> 0, created |-> 0]
    ELSE IF file_type = "transaction"
    THEN LET r == ImportLoop(txns, "transaction", file, customer, 1, 0, 0)
         IN [transactions |-> r.table, investments |-> invs,
             raised |-> r.raised, records_imported |-> r.records_imported,
             created |-> r.created]
    ELSE IF file_type = "investment"
    THEN LET r == ImportLoop(invs, "investment", file, customer, 1, 0, 0)
         IN [transactions |-> txns, investments |-> r.table,
             raised |-> r.raised, records_imported |-> r.records_imported,
             created |-> r.created]
    ELSE [transactions |-> txns, investments |-> invs, raised |-> FALSE,
          records_imported |-> 0, created |-> 0]

\* variant: the import runs in a transaction that a failure rolls back
RolledBack(before, reached) == before

\* the table a failed import leaves: the except branch of upload_file
\* answers 500 and undoes nothing, so what the loop reached stays
AfterFailure(before, reached) == reached

\* upload_file(request), POST /api/upload/: the response and the store it
\* leaves, from the store (txns, invs) and the request
upload_file(txns, invs, known, has_file, file_type, customer_id, file) ==
    IF ~has_file \/ file_type = Missing \/ customer_id = Missing
    THEN [status |-> 400, saved |-> FALSE, processed |-> FALSE,
          records_imported |-> 0, created |-> 0,
          transactions |-> txns, investments |-> invs]
    ELSE IF ~CustomerExists(known, customer_id)
    THEN [status |-> 404, saved |-> FALSE, processed |-> FALSE,
          records_imported |-> 0, created |-> 0,
          transactions |-> txns, investments |-> invs]
    ELSE LET r == process_uploaded_file(txns, invs, file_type, file,
                                        customer_id)
         IN IF r.raised
            THEN [status |-> 500, saved |-> TRUE, processed |-> FALSE,
                  records_imported |-> 0, created |-> r.created,
                  transactions |-> AfterFailure(txns, r.transactions),
                  investments |-> AfterFailure(invs, r.investments)]
            ELSE [status |-> 201, saved |-> TRUE, processed |-> TRUE,
                  records_imported |-> r.records_imported,
                  created |-> r.created,
                  transactions |-> r.transactions,
                  investments |-> r.investments]

\* the upload handler as a step of the system
UploadFile ==
    /\ Len(uploaded_files) < MaxUploads
    /\ \E req \in UploadRequests :
        \E r \in {upload_file(transactions, investments, customers,
                              req[1], req[2], req[3], req[4])} :
           /\ uploaded_files' =
                  IF r.saved
                  THEN Append(uploaded_files,
                              [file_type |-> req[2], uploaded_by |-> req[3],
                               processed |-> r.processed,
                               records_imported |-> r.records_imported])
                  ELSE uploaded_files
           /\ transactions' = r.transactions
           /\ investments' = r.investments
           /\ last' = [op |-> "upload", status |-> r.status,
                       file_type |-> req[2], columns |-> req[4].columns,
                       readable |-> req[4].readable,
                       rows |-> Len(req[4].rows),
                       records_imported |-> r.records_imported,
                       created |-> r.created]
           /\ UNCHANGED <<customers, conversations, messages, clock>>

\* the rows of mock_data/*.csv (the files are deployment data)
MockFile == [readable |-> TRUE, columns |-> "full",
             rows |-> <<[id |-> 1, amount |-> 1]>>]
MockOwner == "C1"

\* manage.py load_mock_data: get_or_create of every customer, transaction
\* and investment of the mock files
LoadMockData ==
    /\ customers' = customers \cup MockCustomers
    /\ transactions' =
           ImportLoop(transactions, "transaction", MockFile, MockOwner,
                      1, 0, 0).table
    /\ investments' =
           ImportLoop(investments, "investment", MockFile, MockOwner,
                      1, 0, 0).table
    /\ last' = [op |-> "load_mock_data", status |-> 0]
    /\ UNCHANGED <<conversations, messages, uploaded_files, clock>>

\* ------------------------------------------------------ data_service.py
\* float results are kept as exact fractions num/den with den > 0
Abs(x) == IF x < 0 THEN -x ELSE x

RECURSIVE GCD(_, _)
GCD(a, b) == IF b = 0 THEN a ELSE GCD(b, a % b)

\* what a float division by zero leaves: ZeroDivisionError
DivisionByZero == [num |-> 0, den |-> 0]

\* the float n / d
Divide(n, d) ==
    IF d = 0 THEN DivisionByZero
    ELSE LET g == GCD(Abs(n), Abs(d))
             s == IF d < 0 THEN -1 ELSE 1
         IN [num |-> (s * n) \div g, den |-> (s * d) \div g]

\* the float x / y of two fractions
DivideBy(x, y) ==
    IF x = DivisionByZero \/ y = DivisionByZero THEN DivisionByZero
    ELSE Divide(x.num * y.den, x.den * y.num)

\* round(x, 2): the nearest multiple of 1/100, a tie going to the even one
Round2(x) ==
    LET n == x.num * 100
        q == n \div x.den
        r == n % x.den
        up == \/ 2 * r > x.den
              \/ 2 * r = x.den /\ q % 2 = 1
    IN Divide(IF up THEN q + 1 ELSE q, 100)

\* str.title() of one word
Title(w) ==
    CASE w = "groceries" -> "Groceries"
      [] w = "dining" -> "Dining"
      [] w = "out" -> "Out"
      [] w = "mutual" -> "Mutual"
      [] w = "fund" -> "Fund"
      [] w = "stocks" -> "Stocks"
      [] w = "fixed" -> "Fixed"
      [] w = "deposit" -> "Deposit"
      [] OTHER -> w

\* name.replace('_', ' ').title()
DisplayName(name) ==
    [i \in 1..Len(name) |-> IF name[i] = "_" THEN " " ELSE Title(name[i])]

\* the order the store returns equal sort keys in is not fixed by the
\* query: by key ascending or by key descending
TieOrders == {"asc", "desc"}

\* .order_by('-field'): the keys ids, largest value of[k] first
OrderByDesc(of, ids, tie) ==
    LET Before(j, k) ==
            \/ of[j] > of[k]
            \/ /\ of[j] = of[k]
               /\ IF tie = "asc" THEN j < k ELSE k < j
    IN [i \in 1..Cardinality(ids) |->
           CHOOSE k \in ids :
               Cardinality({j \in ids : Before(j, k)}) = i - 1]

\* variant: the query without the slice
Uncapped(seq, n) == seq

\* seq[:n]
FirstN(seq, n) == IF Len(seq) <= n THEN seq ELSE SubSeq(seq, 1, n)

\* variant: the filter by customer alone, without date__gte
AllTransactions(txns, customer_id) ==
    {k \in DOMAIN txns : txns[k].customer = customer_id}

\* Transaction.objects.filter(customer=customer, date__gte=six_months_ago)
RecentTransactions(txns, customer_id) ==
    {k \in DOMAIN txns : /\ txns[k].customer = customer_id
                         /\ txns[k].date >= Today - WindowDays}

\* Investment.objects.filter(customer=customer)
CustomerInvestments(invs, customer_id) ==
    {k \in DOMAIN invs : invs[k].customer = customer_id}

Min(a, b) == IF a < b THEN a ELSE b

\* recent_transactions: the keys of the rows the sliced query returns
recent_transactions(txns, customer_id, tie) ==
    FirstN(OrderByDesc([k \in DOMAIN txns |-> txns[k].date],
                       RecentTransactions(txns, customer_id), tie),
           MaxContextTransactions)

\* investments: the keys of the rows, in the model's default ordering
\* (Meta.ordering = ['-purchase_date'])
customer_investments(invs, customer_id, tie) ==
    OrderByDesc([k \in DOMAIN invs |-> invs[k].purchase_date],
                CustomerInvestments(invs, customer_id), tie)

RECURSIVE SumOf(_, _, _, _)
\* sum(float(row.field) for row in rows[lo..hi]), added up by halves
SumOf(rows, field, lo, hi) ==
    IF lo > hi THEN 0
    ELSE IF lo = hi THEN rows[lo][field]
    ELSE SumOf(rows, field, lo, (lo + hi) \div 2)
             + SumOf(rows, field, (lo + hi) \div 2 + 1, hi)

\* category_spending[c] = category_spending.get(c, 0) + amount over the
\* rows: the dict kept as its items, a key at the place of its first row
CategorySpending(rows) ==
    LET firsts == {i \in 1..Len(rows) :
                      \A j \in 1..(i - 1) :
                          rows[j].category # rows[i].category}
        Nth(n) == CHOOSE i \in firsts :
                      Cardinality({j \in firsts : j < i}) = n - 1
        Of(category) == SelectSeq(rows, LAMBDA r : r.category = category)
    IN [n \in 1..Cardinality(firsts) |->
           [key |-> rows[Nth(n)].category,
            value |-> SumOf(Of(rows[Nth(n)].category), "amount", 1,
                            Len(Of(rows[Nth(n)].category)))]]

RECURSIVE SortedByValueDesc(_)
\* sorted(items, key=lambda x: x[1], reverse=True): stable
SortedByValueDesc(items) ==
    IF items = <<>> THEN <<>>
    ELSE LET top == CHOOSE i \in 1..Len(items) :
                        /\ \A j \in 1..Len(items) :
                               items[j].value <= items[i].value
                        /\ \A j \in 1..(i - 1) :
                               items[j].value < items[i].value
             rest == [j \in 1..(Len(items) - 1) |->
                         IF j < top THEN items[j] ELSE items[j + 1]]
         IN <<items[top]>> \o SortedByValueDesc(rest)

\* {k.replace('_', ' ').title(): v for k, v in items}: a later item with
\* the same display name overwrites the earlier one
CategoryBreakdown(items) ==
    [name \in {DisplayName(items[i].key) : i \in 1..Len(items)} |->
        LET i == CHOOSE i \in 1..Len(items) :
                     /\ DisplayName(items[i].key) = name
                     /\ \A j \in (i + 1)..Len(items) :
                            DisplayName(items[j].key) # name
        IN items[i].value]

\* (max(dates) - min(dates)).days
DaysSpan(rows) ==
    LET newest == CHOOSE i \in 1..Len(rows) :
                      \A j \in 1..Len(rows) : rows[j].date <= rows[i].date
        oldest == CHOOSE i \in 1..Len(rows) :
                      \A j \in 1..Len(rows) : rows[i].date <= rows[j].date
    IN rows[newest].date - rows[oldest].date

\* days / 30 or 1: the quotient, and 1 only when the quotient is 0.0
MonthsCovered(days) ==
    IF Divide(days, 30).num = 0 THEN Divide(1, 1) ELSE Divide(days, 30)

\* DataService._calculate_transaction_summary; {} is the empty mapping <<>>
calculate_transaction_summary(rows) ==
    IF rows = <<>> THEN <<>>
    ELSE LET total_spent == SumOf(rows, "amount", 1, Len(rows))
             category_spending == CategorySpending(rows)
             top_categories == FirstN(SortedByValueDesc(category_spending), 5)
         IN [total_spent |-> total_spent,
             monthly_average |->
                 DivideBy(Divide(total_spent, 1),
                          MonthsCovered(DaysSpan(rows))),
             top_categories |->
                 [i \in 1..Len(FirstN(top_categories, 3)) |->
                     DisplayName(top_categories[i].key)],
             category_breakdown |-> CategoryBreakdown(category_spending),
             transaction_count |-> Len(rows)]

\* variant: the quotient without the guard on total_invested
UnguardedReturnPercentage(total_returns, total_invested) ==
    Divide(total_returns * 100, total_invested)

\* (total_returns / total_invested * 100) if total_invested > 0 else 0
ReturnPercentage(total_returns, total_invested) ==
    IF total_invested > 0 THEN Divide(total_returns * 100, total_invested)
    ELSE Divide(0, 1)

RECURSIVE ProductTypes(_, _, _)
\* list(product_types.keys()): the display names in first-seen order
ProductTypes(rows, i, names) ==
    IF i > Len(rows) THEN names
    ELSE ProductTypes(rows, i + 1,
             IF \E j \in 1..Len(names) :
                    names[j] = DisplayName(rows[i].product_type)
             THEN names
             ELSE Append(names, DisplayName(rows[i].product_type)))

\* max(investments, key=lambda x: x.returns_percentage): the first row
\* with the largest value
BestInvestment(rows) ==
    rows[CHOOSE i \in 1..Len(rows) :
             /\ \A j \in 1..Len(rows) :
                    rows[j].returns_percentage <= rows[i].returns_percentage
             /\ \A j \in 1..(i - 1) :
                    rows[j].returns_percentage < rows[i].returns_percentage]

\* DataService._calculate_investment_summary; {} is the empty mapping <<>>
calculate_investment_summary(rows) ==
    IF rows = <<>> THEN <<>>
    ELSE LET total_invested ==
                 SumOf(rows, "invested_amount", 1, Len(rows))
             current_value == SumOf(rows, "current_value", 1, Len(rows))
             total_returns == current_value - total_invested
         IN [total_invested |-> total_invested,
             current_value |-> current_value,
             total_returns |-> total_returns,
             return_percentage |->
                 ReturnPercentage(total_returns, total_invested),
             product_types |-> ProductTypes(rows, 1, <<>>),
             investment_count |-> Len(rows),
             best_performer |->
                 [name |-> BestInvestment(rows).product_name,
                  return |-> BestInvestment(rows).returns_percentage]]

\* DataService.get_customer_context: {} for an unknown customer, else the
\* snapshot
get_customer_context(known, txns, invs, customer_id, tie) ==
    IF customer_id \notin known
    THEN [empty |-> TRUE, customer |-> Missing,
          transactions |-> <<>>, investments |-> <<>>,
          transaction_summary |-> <<>>, investment_summary |-> <<>>]
    ELSE LET recent == recent_transactions(txns, customer_id, tie)
             held == customer_investments(invs, customer_id, tie)
         IN [empty |-> FALSE, customer |-> customer_id,
             transactions |->
                 [i \in 1..Len(recent) |->
                     [transaction_id |-> recent[i],
                      date |-> txns[recent[i]].date,
                      category |-> txns[recent[i]].category,
                      merchant |-> txns[recent[i]].merchant,
                      amount |-> txns[recent[i]].amount,
                      description |-> txns[recent[i]].description]],
             investments |->
                 [i \in 1..Len(held) |->
                     [investment_id |-> held[i],
                      product_type |-> invs[held[i]].product_type,
                      product_name |-> invs[held[i]].product_name,
                      invested_amount |-> invs[held[i]].invested_amount,
                      current_value |-> invs[held[i]].current_value,
                      returns_percentage |->
                          invs[held[i]].returns_percentage,
                      risk_level |-> invs[held[i]].risk_level]],
             transaction_summary |->
                 calculate_transaction_summary(
                     [i \in 1..Len(recent) |-> txns[recent[i]]]),
             investment_summary |->
                 calculate_investment_summary(
                     [i \in 1..Len(held) |-> invs[held[i]]])]

\* variant: the share rounded to a whole number of percent, round(x)
WholeShare(value, total) ==
    LET x == Divide(value * 100, total)
        q == x.num \div x.den
        r == x.num % x.den
    IN Divide(IF 2 * r >= x.den THEN q + 1 ELSE q, 1)

\* round(value / total * 100, 2)
Share(value, total) == Round2(Divide(value * 100, total))

RECURSIVE SumOver(_, _)
\* Sum('field') over the rows ids, of[k] being row k's value
SumOver(of, ids) ==
    IF ids = {} THEN 0
    ELSE LET k == CHOOSE k \in ids : TRUE
         IN of[k] + SumOver(of, ids \ {k})

\* DataService.get_portfolio_allocation: the groups of
\* values('product_type').annotate(Sum('current_value')), by raw type
get_portfolio_allocation(invs, customer_id) ==
    LET held == CustomerInvestments(invs, customer_id)
        types == {invs[k].product_type : k \in held}
        total_value ==
            [t \in types |->
                SumOver([k \in held |-> invs[k].current_value],
                        {k \in held : invs[k].product_type = t})]
        total_portfolio == SumOver(total_value, types)
    IN [total_value |-> total_portfolio,
        allocation |->
            [t \in types |->
                [product_type |-> DisplayName(t),
                 value |-> total_value[t],
                 percentage |->
                     IF total_portfolio > 0
                     THEN Share(total_value[t], total_portfolio)
                     ELSE Divide(0, 1)]]]

\* views.get_customer_context: GET /api/context/<customer_id>/ ; the
\* data service raises nothing, so the except branch (500) is never taken
context_endpoint(known, txns, invs, customer_id, tie) ==
    [status |-> 200,
     body |-> get_customer_context(known, txns, invs, customer_id, tie)]

GetCustomerContext ==
    \E customer_id \in CustomerIds, tie \in TieOrders :
        \E r \in {context_endpoint(customers, transactions, investments,
                                   customer_id, tie)} :
            /\ last' = [op |-> "context", customer_id |-> customer_id,
                        status |-> r.status, empty |-> r.body.empty,
                        body |-> r.body]
            /\ UNCHANGED <<customers, transactions, investments,
                           conversations, messages, uploaded_files, clock>>

\* a caller of DataService.get_portfolio_allocation
PortfolioAllocation ==
    \E customer_id \in CustomerIds :
        /\ last' = [op |-> "allocation", customer_id |-> customer_id,
                    status |-> 200,
                    body |-> get_portfolio_allocation(investments,
                                                      customer_id)]
        /\ UNCHANGED <<customers, transactions, investments, conversations,
                       messages, uploaded_files, clock>>

\* ---------------------------------------------------- gemini_service.py
Intents == {<<"transaction_analysis">>, <<"investment_overview">>,
            <<"recommendation">>, <<"general_query">>, <<"summary">>}

\* what the external generation service does with one call
ClassifyOutcomes ==
    {[kind |-> "raise", text |-> <<>>], [kind |-> "empty", text |-> <<>>]}
        \cup [kind : {"text"},
              text : {<<"summary">>, <<" ", "SUMMARY", "\n">>,
                      <<"Spending">>}]

GenerateOutcomes ==
    {[kind |-> "raise", text |-> <<>>], [kind |-> "empty", text |-> <<>>]}
        \cup [kind : {"text"}, text : {<<" ", "answer", "\n">>}]

\* variant: a call that raised is made a second time
generate_content_retry(outcome) ==
    [outcome |-> outcome,
     calls |-> IF outcome.kind = "raise" THEN 2 ELSE 1]

\* one request to the generation service (model.generate_content or
\* chat.send_message) inside a try block: what it did, and the number of
\* requests made
generate_content(outcome) == [outcome |-> outcome, calls |-> 1]

\* the text classify_intent returns when the service answers with parts
IntentOfText(text) == LowerText(Strip(text))

\* GeminiService.classify_intent
classify_intent(outcome) ==
    IF generate_content(outcome).outcome.kind = "text"
    THEN IntentOfText(generate_content(outcome).outcome.text)
    ELSE <<"general_query">>

GlitchText == <<"Oops, technical glitch! Try again in a moment.">>
TroubleText == <<"I'm having trouble thinking of a detailed response.">>

\* variant: the first n entries, seq[:n]
HeadN(seq, n) == IF Len(seq) <= n THEN seq ELSE SubSeq(seq, 1, n)

\* the last n entries of a sequence: seq[-n:]
LastN(seq, n) ==
    IF Len(seq) <= n THEN seq ELSE SubSeq(seq, Len(seq) - n + 1, Len(seq))

\* variant: the except branch answers with the other apology
FallbackTrouble(outcome) == TroubleText

\* the text of the except branch of generate_response
FallbackResponse(outcome) == GlitchText

\* variant: only a missing or empty history counts as the first message
NoHistory(conversation_history) == conversation_history = <<>>

\* is_first_message = not conversation_history
\*                        or len(conversation_history) <= 1
IsFirstMessage(conversation_history) ==
    conversation_history = <<>> \/ Len(conversation_history) <= 1

\* GeminiService.generate_response
generate_response(conversation_history, outcome) ==
    LET window == LastN(conversation_history, HistoryWindow)
        chat_history ==
            [i \in 1..Len(window) |->
                [role |-> IF window[i].role = "user" THEN "user" ELSE "model",
                 parts |-> window[i].content]]
        is_first_message == IsFirstMessage(conversation_history)
        sent == generate_content(outcome)
    IN [response |->
            IF sent.outcome.kind = "raise" THEN FallbackResponse(outcome)
            ELSE IF sent.outcome.kind = "empty" THEN TroubleText
            ELSE Strip(sent.outcome.text),
        failed |-> sent.outcome.kind = "raise",
        chat_history |-> chat_history,
        is_first_message |-> is_first_message,
        instruction |-> IF is_first_message THEN "welcome" ELSE "no_greeting",
        calls |-> sent.calls]

\* generate_follow_up_suggestions: the bucket the suggestions come from
generate_follow_up_suggestions(intent) ==
    IF intent \in Intents THEN intent ELSE <<"general_query">>

\* ------------------------------------------------------ ChatAPIView
\* variant: the lookup that finds nothing
ConversationLookupNone(convs, conversation_id, customer_id) == FALSE

\* variant: the lookup by key alone, without customer=customer
ConversationLookupByKey(convs, conversation_id, customer_id) ==
    conversation_id \in DOMAIN convs

\* ChatConversation.objects.get(conversation_id=..., customer=customer)
ConversationLookup(convs, conversation_id, customer_id) ==
    /\ conversation_id \in DOMAIN convs
    /\ convs[conversation_id].customer = customer_id

\* ChatAPIView._create_new_conversation with the key uuid4 drew
create_new_conversation(convs, key, customer_id, now) ==
    [k \in DOMAIN convs \cup {key} |->
        IF k = key
        THEN [customer |-> customer_id, started_at |-> now,
              last_activity |-> now, is_active |-> TRUE]
        ELSE convs[k]]

\* the conversation's last_activity after a message is created in it at
\* time now (ChatMessage.objects.create does not save the conversation)
TouchConversation(conv, now) == conv

\* variant: get_or_create on conversation and role
create_message_once(msgs, msg) ==
    IF \E i \in 1..Len(msgs) : /\ msgs[i].conversation = msg.conversation
                               /\ msgs[i].role = msg.role
    THEN msgs ELSE Append(msgs, msg)

\* ChatMessage.objects.create
create_message(msgs, msg) == Append(msgs, msg)

\* ChatAPIView._get_conversation_history
get_conversation_history(msgs, key) ==
    SelectSeq(msgs, LAMBDA m : m.conversation = key)

\* the chat requests: (customer_id, message, conversation_id)
ChatRequests ==
    (CustomerIds \X UserTexts \X (ConversationKeys \cup {None}))
        \cup ({Missing} \X UserTexts \X {None})
        \cup (MockCustomers \X {<<>>} \X {None})

\* ChatAPIView.post: POST /api/chat/
ChatPost ==
    \E req \in ChatRequests, fresh \in ConversationKeys,
       classified \in ClassifyOutcomes, generated \in GenerateOutcomes :
        LET customer_id == req[1]
            user_message == req[2]
            conversation_id == req[3]
            reuse == /\ conversation_id # None
                     /\ ConversationLookup(conversations, conversation_id,
                                           customer_id)
            key == IF reuse THEN conversation_id ELSE fresh
            convs1 == IF reuse THEN conversations
                      ELSE create_new_conversation(conversations, fresh,
                                                   customer_id, clock)
            t_user == IF reuse THEN clock ELSE clock + 1
            user_msg == [conversation |-> key, role |-> "user",
                         content |-> user_message, timestamp |-> t_user,
                         intent |-> <<>>]
            msgs1 == create_message(messages, user_msg)
            history == get_conversation_history(msgs1, key)
            intent == classify_intent(classified)
            \* the sizes of the lists do not depend on the order of ties
            context_data == get_customer_context(customers, transactions,
                                                 investments, customer_id,
                                                 "asc")
            ai_response == generate_response(history, generated)
            assistant_msg == [conversation |-> key, role |-> "assistant",
                              content |-> ai_response.response,
                              timestamp |-> t_user + 1, intent |-> intent]
        \* a rejected request draws no key and calls no service: one choice
        \* of the unused inputs stands for all
        IN IF customer_id = Missing \/ user_message = <<>>
           THEN /\ fresh = "k1" /\ classified.kind = "raise"
                /\ generated.kind = "raise"
                /\ last' = [op |-> "chat", status |-> 400,
                            customer_id |-> customer_id,
                            supplied |-> conversation_id, calls |-> 0]
                /\ UNCHANGED <<customers, transactions, investments,
                               conversations, messages, uploaded_files,
                               clock>>
           ELSE IF ~CustomerExists(customers, customer_id)
           THEN /\ fresh = "k1" /\ classified.kind = "raise"
                /\ generated.kind = "raise"
                /\ last' = [op |-> "chat", status |-> 404,
                            customer_id |-> customer_id,
                            supplied |-> conversation_id, calls |-> 0]
                /\ UNCHANGED <<customers, transactions, investments,
                               conversations, messages, uploaded_files,
                               clock>>
           ELSE /\ Len(messages) + 2 <= MaxMessages
                /\ IF reuse THEN fresh = "k1"
                   ELSE /\ fresh \notin DOMAIN conversations
                        /\ Cardinality(DOMAIN conversations)
                               < MaxConversations
                /\ conversations' =
                       [convs1 EXCEPT ![key] =
                           TouchConversation(
                               TouchConversation(@, t_user), t_user + 1)]
                /\ messages' = create_message(msgs1, assistant_msg)
                /\ clock' = t_user + 2
                /\ last' = [op |-> "chat", status |-> 200,
                            customer_id |-> customer_id,
                            supplied |-> conversation_id,
                            conversation_id |-> key,
                            created |-> ~reuse,
                            response |-> ai_response.response,
                            intent |-> intent,
                            suggestions |->
                                generate_follow_up_suggestions(intent),
                            generation_failed |-> ai_response.failed,
                            transaction_count |-> Len(context_data.transactions),
                            investment_count |-> Len(context_data.investments),
                            history_len |-> Len(history),
                            turns |-> ai_response.chat_history,
                            instruction |-> ai_response.instruction,
                            generation_calls |-> ai_response.calls,
                            calls |-> generate_content(classified).calls
                                          + ai_response.calls]
                /\ UNCHANGED <<customers, transactions, investments,
                               uploaded_files>>

Init ==
    /\ customers = {}
    /\ transactions = <<>>
    /\ investments = <<>>
    /\ conversations = <<>>
    /\ messages = <<>>
    /\ uploaded_files = <<>>
    /\ clock = 1
    /\ last = [op |-> "none", status |-> 0]

\* a caller of GeminiService.generate_response with the stored history
\* of a conversation
GenerateResponse ==
    \E key \in DOMAIN conversations, generated \in GenerateOutcomes :
        \E r \in {generate_response(get_conversation_history(messages, key),
                                    generated)} :
            /\ last' = [op |-> "generate", status |-> 0,
                        conversation_id |-> key,
                        response |-> r.response,
                        generation_failed |-> r.failed,
                        turns |-> r.chat_history,
                        instruction |-> r.instruction,
                        generation_calls |-> r.calls]
            /\ UNCHANGED <<customers, transactions, investments,
                           conversations, messages, uploaded_files, clock>>

Next ==
    \/ LoadMockData \/ UploadFile \/ ChatPost \/ GetCustomerContext
    \/ PortfolioAllocation \/ GenerateResponse

Spec == Init /\ [][Next]_vars

\* the bulk import side of the system alone
ImportNext == LoadMockData \/ UploadFile

ImportSpec == Init /\ [][ImportNext]_vars

\* the chat and context side of the system alone
ChatNext == LoadMockData \/ ChatPost \/ GetCustomerContext

ChatSpec == Init /\ [][ChatNext]_vars

\* ------------------------------------- the data service on sample stores
MaxTxns == 2
MaxInvs == 3

SampleDates == {Today, Today - 15, Today - 45, Today - 180, Today - 181}

SampleTransaction(customer, date, category, amount) ==
    [customer |-> customer, date |-> date, category |-> category,
     merchant |-> "store", amount |-> amount, payment_method |-> "upi",
     description |-> ""]

SampleTransactions ==
    {SampleTransaction("C1", d, <<"groceries">>, 1) : d \in SampleDates}
        \cup {SampleTransaction("C1", d, <<"dining", "_", "out">>, 2) :
                  d \in SampleDates}
        \cup {SampleTransaction("C1", Today, <<"Dining", " ", "Out">>, 1)}
        \cup {SampleTransaction("C2", Today, <<"groceries">>, 1)}

\* Transaction tables of up to MaxTxns rows, keyed 1..n
TransactionStores ==
    UNION {[1..n -> SampleTransactions] : n \in 0..MaxTxns}

\* Transaction tables with more rows in the window than the snapshot
\* takes: all dates distinct, and five dates shared by all rows
FullStores ==
    {[i \in 1..(MaxContextTransactions + 2) |->
         SampleTransaction("C1", Today - i, <<"groceries">>, 1)],
     [i \in 1..(MaxContextTransactions + 2) |->
         SampleTransaction("C1", Today - (i % 5), <<"groceries">>, 1)]}

SampleInvestment(customer, product_type, invested, current) ==
    [customer |-> customer, product_type |-> product_type,
     product_name |-> "fund", purchase_date |-> Today - 10,
     invested_amount |-> invested, current_value |-> current,
     units |-> 0, purchase_nav |-> 0, current_nav |-> 0,
     returns_absolute |-> current - invested,
     returns_percentage |-> current - invested, risk_level |-> "low"]

SampleInvestments ==
    {SampleInvestment("C1", <<"mutual", "_", "fund">>, 1, 1),
     SampleInvestment("C1", <<"mutual", "_", "fund">>, 2, 1),
     SampleInvestment("C1", <<"stocks">>, 1, 2),
     SampleInvestment("C1", <<"stocks">>, 0, 1),
     SampleInvestment("C1", <<"fixed", "_", "deposit">>, 0, 0),
     SampleInvestment("C1", <<"fixed", "_", "deposit">>, 1, 1),
     SampleInvestment("C1", <<"fixed", "_", "deposit">>, -1, 1),
     SampleInvestment("C2", <<"stocks">>, 1, 2)}

\* Investment tables of up to MaxInvs rows, keyed 1..n
InvestmentStores ==
    UNION {[1..n -> SampleInvestments] : n \in 0..MaxInvs}

\* a store that holds the mock customers and sample records
DataInit ==
    /\ customers = MockCustomers
    /\ \/ /\ transactions \in TransactionStores \cup FullStores
          /\ investments = <<>>
       \/ /\ transactions = <<>>
          /\ investments \in InvestmentStores
    /\ conversations = <<>>
    /\ messages = <<>>
    /\ uploaded_files = <<>>
    /\ clock = 1
    /\ last = [op |-> "none", status |-> 0]

DataNext == GetCustomerContext \/ PortfolioAllocation

DataSpec == DataInit /\ [][DataNext]_vars

\* ------------------------------ generate_response on sample histories
MaxHistory == 10

RolePatterns == {"alternating", "assistant_first", "with_system",
                 "users_only"}

\* the role of the i-th message of a history of the given pattern
PatternRole(pattern, i) ==
    CASE pattern = "alternating" ->
             IF i % 2 = 1 THEN "user" ELSE "assistant"
      [] pattern = "assistant_first" ->
             IF i % 2 = 1 THEN "assistant" ELSE "user"
      [] pattern = "with_system" ->
             IF i % 4 = 0 THEN "system"
             ELSE IF i % 2 = 1 THEN "user" ELSE "assistant"
      [] OTHER -> "user"

\* n messages of conversation k1, the i-th with the text i
SampleHistory(n, pattern) ==
    [i \in 1..n |->
        [conversation |-> "k1", role |-> PatternRole(pattern, i),
         content |-> <<ToString(i)>>, timestamp |-> i + 1,
         intent |-> <<>>]]

SampleHistories ==
    {SampleHistory(n, pattern) : n \in 0..MaxHistory,
                                 pattern \in RolePatterns}

\* a store that holds one conversation and a sample history of it
HistoryInit ==
    /\ customers = MockCustomers
    /\ transactions = <<>>
    /\ investments = <<>>
    /\ conversations = create_new_conversation(<<>>, "k1", "C1", 1)
    /\ messages \in SampleHistories
    /\ uploaded_files = <<>>
    /\ clock = MaxHistory + 2
    /\ last = [op |-> "none", status |-> 0]

HistoryNext == GenerateResponse

HistorySpec == HistoryInit /\ [][HistoryNext]_vars

\* ------------------------------------------------------------- claims
\* the last exchange was a chat request that passed validation and lookup
ChatServed == last.op = "chat" /\ last.status = 200

\* C1: a chat request by customer A with the key K of a conversation owned
\* by another customer B never resolves to B's conversation: a new
\* conversation owned by A, with a fresh key other than K, is created and
\* B's conversation and its messages stay as they were.
C1_ForeignKeyNeverReused ==
    [][(/\ last'.op = "chat" /\ last'.status = 200
        /\ last'.supplied \in DOMAIN conversations
        /\ conversations[last'.supplied].customer # last'.customer_id)
       => (/\ last'.conversation_id # last'.supplied
           /\ last'.conversation_id \notin DOMAIN conversations
           /\ last'.conversation_id \in DOMAIN conversations'
           /\ conversations'[last'.conversation_id].customer
                  = last'.customer_id
           /\ conversations'[last'.supplied]
                  = conversations[last'.supplied]
           /\ get_conversation_history(messages', last'.supplied)
                  = get_conversation_history(messages, last'.supplied)
           /\ \A i \in Len(messages) + 1..Len(messages') :
                  messages'[i].conversation = last'.conversation_id)]_vars

C1_Witness ==
    /\ ChatServed
    /\ last.supplied \in DOMAIN conversations
    /\ conversations[last.supplied].customer # last.customer_id
    /\ last.created
    /\ get_conversation_history(messages, last.supplied) # <<>>

\* C2: a validated chat request whose customer_id matches no stored
\* customer ends with 404, creates no conversation and no message, and
\* makes no call to the external service.
C2_UnknownCustomerNoEffect ==
    [][(/\ last'.op = "chat" /\ last'.status # 400
        /\ last'.customer_id \notin customers)
       => (/\ last'.status = 404
           /\ conversations' = conversations
           /\ messages' = messages
           /\ last'.calls = 0)]_vars

C2_Witness ==
    /\ last.op = "chat" /\ last.status = 404
    /\ last.customer_id \notin customers
    /\ customers # {}
    /\ messages # <<>>

\* C3: when the generation call raises during a chat request of an
\* existing customer, the endpoint still answers 200 with the fixed
\* fallback text, and the request persists exactly one assistant message,
\* with that text, in the request's conversation.
C3_FallbackPersisted ==
    [][(last'.op = "chat" /\ last'.status = 200 /\ last'.generation_failed)
       => (/\ last'.response = GlitchText
           /\ Len(messages') = Len(messages) + 2
           /\ SubSeq(messages', 1, Len(messages)) = messages
           /\ messages'[Len(messages) + 1].role = "user"
           /\ messages'[Len(messages) + 2].role = "assistant"
           /\ messages'[Len(messages) + 2].content = GlitchText
           /\ messages'[Len(messages) + 2].conversation
                  = last'.conversation_id)]_vars

C3_Witness ==
    /\ ChatServed /\ last.generation_failed
    /\ last.response = GlitchText
    /\ messages[Len(messages)].content = GlitchText

\* the last exchange was an upload that reached the import
UploadSaved == last.op = "upload" /\ last.status \in {201, 500}

ImportTypes == {"transaction", "investment"}

\* C4: bulk import is idempotent on the record store: for every store and
\* every transaction or investment file whose import completes, importing
\* the same file again completes, creates no record and leaves every
\* record as it is.
C4_ImportIdempotent ==
    Len(uploaded_files) < MaxUploads =>
        \A file_type \in ImportTypes, customer \in customers, file \in Files :
            LET once == process_uploaded_file(transactions, investments,
                                              file_type, file, customer)
                twice == process_uploaded_file(once.transactions,
                                               once.investments,
                                               file_type, file, customer)
            IN ~once.raised =>
                  /\ ~twice.raised
                  /\ twice.created = 0
                  /\ twice.transactions = once.transactions
                  /\ twice.investments = once.investments

C4_Witness ==
    /\ UploadSaved /\ last.status = 201
    /\ last.file_type \in ImportTypes
    /\ Len(uploaded_files) = 2
    /\ uploaded_files[1] = uploaded_files[2]
    /\ last.rows = MaxRows /\ last.created = 0
    /\ 2 \in DOMAIN transactions \cup DOMAIN investments

\* C5: bulk import never modifies a record that already exists: every
\* record present before an upload is present, with every field (its
\* owning customer included) unchanged, after it.
C5_ExistingRecordsUntouched ==
    [][last'.op = "upload"
       => (/\ \A k \in DOMAIN transactions :
                 k \in DOMAIN transactions'
                     /\ transactions'[k] = transactions[k]
           /\ \A k \in DOMAIN investments :
                 k \in DOMAIN investments'
                     /\ investments'[k] = investments[k])]_vars

C5_Witness ==
    /\ UploadSaved /\ last.status = 201
    /\ last.file_type = "transaction" /\ last.columns = "full"
    /\ last.rows >= 1 /\ last.created = 0
    /\ uploaded_files[Len(uploaded_files)].uploaded_by = "C2"
    /\ \A k \in DOMAIN transactions : transactions[k].customer = "C1"

\* C6: a transaction or investment import that completes returns the
\* number of rows of the input, no-op rows included, which is at least
\* the number of records the import created.
C6_CountIsRowCount ==
    [][(/\ last'.op = "upload" /\ last'.status = 201
        /\ last'.file_type \in ImportTypes)
       => (/\ last'.records_imported = last'.rows
           /\ last'.records_imported >=
                  (Cardinality(DOMAIN transactions')
                       - Cardinality(DOMAIN transactions))
                  + (Cardinality(DOMAIN investments')
                         - Cardinality(DOMAIN investments))
           /\ uploaded_files'[Len(uploaded_files')].records_imported
                  = last'.rows)]_vars

C6_Witness ==
    /\ UploadSaved /\ last.status = 201
    /\ last.file_type \in ImportTypes
    /\ last.rows = 2 /\ last.records_imported = 2
    /\ last.created = 1

C8_IntentIsOneOfFive ==
    /\ ChatServed => last.intent \in Intents
    /\ \A i \in 1..Len(messages) :
          messages[i].role = "assistant" => messages[i].intent \in Intents

\* the newest timestamp among the messages of a conversation (0 if none)
NewestMessage(key) ==
    LET ts == {messages[i].timestamp :
                  i \in {j \in 1..Len(messages) :
                            messages[j].conversation = key}}
    IN IF ts = {} THEN 0 ELSE CHOOSE t \in ts : \A u \in ts : u <= t

\* C9: every conversation's last_activity equals the timestamp of the most
\* recent message appended to it.
C9_LastActivityIsNewestMessage ==
    \A key \in DOMAIN conversations :
        NewestMessage(key) # 0 =>
            conversations[key].last_activity = NewestMessage(key)

\* C10: the context endpoint answers a customer id that matches no stored
\* customer with an error, not with a success response.
C10_UnknownCustomerContextIsError ==
    (last.op = "context" /\ last.customer_id \notin customers)
        => last.status >= 400

\* the last exchange was a context request for a stored customer
ContextServed == last.op = "context" /\ ~last.empty

\* the stored invested amounts of a customer, added up
TotalInvested(customer_id) ==
    SumOver([k \in DOMAIN investments |-> investments[k].invested_amount],
            CustomerInvestments(investments, customer_id))

\* the stored current values of a customer, added up
TotalCurrent(customer_id) ==
    SumOver([k \in DOMAIN investments |-> investments[k].current_value],
            CustomerInvestments(investments, customer_id))

Hundredths(p) == p.num * (100 \div p.den)

\* C12: the percentages of get_portfolio_allocation add up to 100, give
\* or take half a hundredth per group, whenever the customer's total
\* current value is greater than 0, and every group's percentage is 0
\* when that total is 0.
C12_AllocationSumsTo100 ==
    last.op = "allocation"
    => LET allocation == last.body.allocation
           types == DOMAIN allocation
           total == TotalCurrent(last.customer_id)
       IN /\ \A t \in types : allocation[t].percentage.den > 0
          /\ total > 0
                 => 2 * Abs(SumOver([t \in types |->
                                Hundredths(allocation[t].percentage)], types)
                           - 10000) <= Cardinality(types)
          /\ total = 0
                 => \A t \in types : allocation[t].percentage.num = 0

C12_Witness ==
    /\ last.op = "allocation"
    /\ TotalCurrent(last.customer_id) > 0
    /\ Cardinality(DOMAIN last.body.allocation) = 3
    /\ SumOver([t \in DOMAIN last.body.allocation |->
                   Hundredths(last.body.allocation[t].percentage)],
               DOMAIN last.body.allocation) # 10000

\* C13: a stored customer none of whose transactions is dated within the
\* trailing 180 days gets the empty mapping as transaction summary,
\* whatever older transactions there are, and a customer without
\* investments gets the empty mapping as investment summary.
C13_EmptySummaries ==
    ContextServed
    => /\ (\A k \in DOMAIN transactions :
               transactions[k].customer = last.customer_id
                   => transactions[k].date < Today - WindowDays)
              => DOMAIN last.body.transaction_summary = {}
       /\ (\A k \in DOMAIN investments :
               investments[k].customer # last.customer_id)
              => DOMAIN last.body.investment_summary = {}

C13_Witness ==
    /\ ContextServed
    /\ Cardinality({k \in DOMAIN transactions :
                       /\ transactions[k].customer = last.customer_id
                       /\ transactions[k].date < Today - WindowDays}) > 1
    /\ last.body.transaction_summary = <<>>
    /\ last.body.investment_summary = <<>>

\* the messages a step appended
Appended == SubSeq(messages', Len(messages) + 1, Len(messages'))

\* C14: a supplied key of a conversation owned by the request's customer
\* is reused: no conversation is created, the response carries that key
\* and the request's messages go to that conversation. In every other
\* case exactly one conversation is created, owned by the customer,
\* active, under a key no existing conversation has.
C14_ResolveOrCreate ==
    [][(last'.op = "chat" /\ last'.status = 200)
       => IF /\ last'.supplied \in DOMAIN conversations
             /\ conversations[last'.supplied].customer = last'.customer_id
          THEN /\ DOMAIN conversations' = DOMAIN conversations
               /\ last'.conversation_id = last'.supplied
               /\ ~last'.created
               /\ Appended # <<>>
               /\ \A i \in 1..Len(Appended) :
                      Appended[i].conversation = last'.supplied
          ELSE /\ last'.conversation_id \notin DOMAIN conversations
               /\ DOMAIN conversations'
                      = DOMAIN conversations \cup {last'.conversation_id}
               /\ conversations'[last'.conversation_id].customer
                      = last'.customer_id
               /\ conversations'[last'.conversation_id].is_active
               /\ \A k \in DOMAIN conversations :
                      conversations'[k] = conversations[k]
               /\ \A i \in 1..Len(Appended) :
                      Appended[i].conversation = last'.conversation_id]_vars

C14_Witness ==
    /\ ChatServed
    /\ ~last.created
    /\ last.supplied = last.conversation_id
    /\ DOMAIN conversations = {last.conversation_id}
    /\ Len(get_conversation_history(messages, last.conversation_id)) = 4

\* a history is user, assistant, user, assistant, ...
Alternates(history) ==
    \A i \in 1..Len(history) :
        history[i].role = IF i % 2 = 1 THEN "user" ELSE "assistant"

\* C15: a served chat request appends exactly two messages, both to its
\* own conversation: the user message first, stored before the
\* generation call reads the history, then the assistant message with
\* the response; every conversation's history alternates user,
\* assistant, starting with user.
C15_TwoMessagesPerRequest ==
    [][(last'.op = "chat" /\ last'.status = 200)
       => (/\ Len(messages') = Len(messages) + 2
           /\ SubSeq(messages', 1, Len(messages)) = messages
           /\ Appended[1].conversation = last'.conversation_id
           /\ Appended[2].conversation = last'.conversation_id
           /\ Appended[1].role = "user"
           /\ Appended[2].role = "assistant"
           /\ Appended[2].content = last'.response
           /\ Appended[1].timestamp < Appended[2].timestamp
           /\ last'.history_len
                  = Len(get_conversation_history(messages,
                                                 last'.conversation_id)) + 1
           /\ last'.turns[Len(last'.turns)].parts = Appended[1].content
           /\ \A k \in DOMAIN conversations' :
                  Alternates(get_conversation_history(messages', k)))]_vars

C15_Witness ==
    /\ ChatServed
    /\ Len(messages) = 4
    /\ Len(get_conversation_history(messages, last.conversation_id)) = 4
    /\ Alternates(get_conversation_history(messages, last.conversation_id))

\* C16: the prior turns handed to the generation service are the last
\* min(8, length) entries of the history, in the same order, each with
\* the role user kept and every other role turned into model; they are
\* never more than 8.
C16_LastEightTurns ==
    last.op = "generate"
    => LET history == get_conversation_history(messages,
                                               last.conversation_id)
           n == IF Len(history) < 8 THEN Len(history) ELSE 8
       IN /\ Len(last.turns) = n
          /\ \A i \in 1..n :
                 /\ last.turns[i].parts
                        = history[Len(history) - n + i].content
                 /\ last.turns[i].role
                        = IF history[Len(history) - n + i].role = "user"
                          THEN "user" ELSE "model"

C16_Witness ==
    /\ last.op = "generate"
    /\ Len(messages) > 8
    /\ Len(last.turns) = 8
    /\ \E i \in 1..8 :
           /\ messages[Len(messages) - 8 + i].role = "system"
           /\ last.turns[i].role = "model"

\* C17: generate_response makes at most one call to the generation
\* service and answers a failed call with the fallback text without a
\* second call, so a chat request makes at most two external calls.
C17_SingleAttempt ==
    last.op = "chat"
    => /\ last.calls <= 2
       /\ last.status = 200
              => /\ last.generation_calls <= 1
                 /\ last.generation_failed
                        => /\ last.generation_calls = 1
                           /\ last.response = GlitchText

C17_Witness ==
    /\ ChatServed
    /\ last.generation_failed
    /\ last.calls = 2
    /\ last.response = GlitchText

\* C18: the welcome instruction is chosen exactly when the history is
\* empty or has at most one entry; as the user message is stored before
\* the history is read, the first request of a conversation gets the
\* welcome instruction and no later request of it does.
C18_GreetOnFirstRequestOnly ==
    [][(last'.op = "chat" /\ last'.status = 200)
       => (/\ last'.instruction = "welcome"
                  <=> get_conversation_history(messages,
                          last'.conversation_id) = <<>>
           /\ last'.instruction = "welcome" <=> last'.history_len <= 1
           /\ last'.instruction \in {"welcome", "no_greeting"}
           /\ \A n \in 0..3 :
                  generate_response(SampleHistory(n, "alternating"),
                                    [kind |-> "empty", text |-> <<>>])
                      .instruction
                      = IF n <= 1 THEN "welcome" ELSE "no_greeting")]_vars

C18_Witness ==
    /\ ChatServed
    /\ ~last.created
    /\ last.instruction = "no_greeting"
    /\ last.history_len = 3

\* C19: for a non-empty retrieved set the monthly average is the total
\* spend divided by max(1, days-span / 30): the total spend itself when
\* the span is under 30 days; nothing is divided by zero.
C19_MonthlyAverage ==
    (ContextServed /\ last.body.transaction_summary # <<>>)
    => LET rows == last.body.transactions
           span == rows[1].date - rows[Len(rows)].date
           total == last.body.transaction_summary.total_spent
           average == last.body.transaction_summary.monthly_average
       IN /\ average.den > 0
          /\ IF span <= 30
             THEN average.num = total * average.den
             ELSE average.num * span = total * 30 * average.den

\* C20: the snapshot's transactions are the customer's transactions
\* dated on or after today minus 180 days and no others, newest first,
\* at most 50 and then the 50 newest; its investments are all of the
\* customer's investments.
C20_SnapshotLists ==
    ContextServed
    => LET rows == last.body.transactions
           held == last.body.investments
           qualifying == {k \in DOMAIN transactions :
                             /\ transactions[k].customer = last.customer_id
                             /\ transactions[k].date >= Today - 180}
           listed == {rows[i].transaction_id : i \in 1..Len(rows)}
       IN /\ listed \subseteq qualifying
          /\ Cardinality(listed) = Len(rows)
          /\ \A i \in 1..Len(rows) :
                 rows[i].date = transactions[rows[i].transaction_id].date
          /\ \A i \in 1..(Len(rows) - 1) : rows[i].date >= rows[i + 1].date
          /\ Len(rows) <= 50
          /\ Len(rows) < 50 => listed = qualifying
          /\ \A k \in qualifying \ listed : \A i \in 1..Len(rows) :
                 transactions[k].date <= rows[i].date
          /\ {held[i].investment_id : i \in 1..Len(held)}
                 = {k \in DOMAIN investments :
                       investments[k].customer = last.customer_id}
          /\ Cardinality({held[i].investment_id : i \in 1..Len(held)})
                 = Len(held)

C20_Witness ==
    /\ ContextServed
    /\ Cardinality({k \in DOMAIN transactions :
                       /\ transactions[k].customer = last.customer_id
                       /\ transactions[k].date >= Today - 180}) > 50
    /\ Len(last.body.transactions) = 50
    /\ \E i \in 1..49 :
           last.body.transactions[i].date
               = last.body.transactions[i + 1].date

\* C21: for a non-empty retrieved set the values of category_breakdown
\* add up to total_spent and top_categories names no category twice,
\* also when two raw categories have the same display name.
C21_BreakdownAddsUp ==
    (ContextServed /\ last.body.transaction_summary # <<>>)
    => LET summary == last.body.transaction_summary
           top == summary.top_categories
       IN /\ SumOver(summary.category_breakdown,
                     DOMAIN summary.category_breakdown)
                 = summary.total_spent
          /\ \A i, j \in 1..Len(top) : i # j => top[i] # top[j]

\* the last exchange was an upload whose import failed
ImportFailed == last.op = "upload" /\ last.status = 500

\* the keys a step added to a table
NewKeys(before, after) == DOMAIN after \ DOMAIN before

\* C22 (as amended): a bulk import that fails at row k is not rolled
\* back: every record that existed before the call is unchanged, the
\* records the call created for the rows before row k stay in the table
\* of the file's type, owned by the uploading customer, nothing is
\* created for row k, and the upload's metadata record is left with
\* processed = false and imported count 0.
C22_FailedImportKeepsEarlierRows ==
    [][(last'.op = "upload" /\ last'.status = 500)
       => (/\ \A k \in DOMAIN transactions :
                 /\ k \in DOMAIN transactions'
                 /\ transactions'[k] = transactions[k]
           /\ \A k \in DOMAIN investments :
                 /\ k \in DOMAIN investments'
                 /\ investments'[k] = investments[k]
           /\ Cardinality(NewKeys(transactions, transactions'))
                  = IF last'.file_type = "transaction"
                    THEN last'.created ELSE 0
           /\ Cardinality(NewKeys(investments, investments'))
                  = IF last'.file_type = "investment"
                    THEN last'.created ELSE 0
           /\ last'.created < last'.rows \/ last'.created = 0
           /\ Len(uploaded_files') = Len(uploaded_files) + 1
           /\ SubSeq(uploaded_files', 1, Len(uploaded_files))
                  = uploaded_files
           /\ ~uploaded_files'[Len(uploaded_files')].processed
           /\ uploaded_files'[Len(uploaded_files')].records_imported = 0
           /\ \A k \in NewKeys(transactions, transactions') :
                  transactions'[k].customer
                      = uploaded_files'[Len(uploaded_files')].uploaded_by
           /\ \A k \in NewKeys(investments, investments') :
                  investments'[k].customer
                      = uploaded_files'[Len(uploaded_files')].uploaded_by)]_vars

C22_Witness ==
    /\ ImportFailed
    /\ last.rows = 2 /\ last.created = 1
    /\ last.file_type = "transaction"
    /\ Len(uploaded_files) = 1
    /\ DOMAIN transactions = {1, 2}
    /\ ~uploaded_files[1].processed

\* C22 as stated: a failed import leaves the record store as it was
\* before the call, and the metadata record unprocessed with count 0.
C22_AsStated ==
    [][(last'.op = "upload" /\ last'.status = 500)
       => (/\ transactions' = transactions
           /\ investments' = investments
           /\ ~uploaded_files'[Len(uploaded_files')].processed
           /\ uploaded_files'[Len(uploaded_files')].records_imported
                  = 0)]_vars

====
